---------------------------- MODULE Spec2Model ----------------------------
(***************************************************************************)
(* Model of the AES encryption system: the AES class (key schedule, block  *)
(* cipher, CBC mode) and the authenticated encrypt / decrypt functions of  *)
(* src/src/EncryptionSystem/AES_logic.py.                                   *)
(*                                                                         *)
(* Bytes are integers 0..255, byte strings are sequences of bytes, text is *)
(* a sequence of Unicode code points.  Python's 0-based index k is the     *)
(* 1-based index k + 1 here.                                               *)
(*                                                                         *)
(* The module encryption_logic that AES_logic.py imports (tables and the   *)
(* primitive operations on the state matrix) is modelled from the design   *)
(* document; the tables are those of the standard cipher, and the model is *)
(* checked against the published single-block test vectors (KnownAnswer).  *)
(* hashlib.pbkdf2_hmac and hmac.new are library functions: they are        *)
(* modelled as deterministic mixing functions of all their arguments with  *)
(* the output length of the call.                                          *)
(***************************************************************************)
EXTENDS Integers, Sequences, FiniteSets, TLC

(***************************************************************************)
(* Byte arithmetic                                                         *)
(***************************************************************************)
Min(a, b) == IF a < b THEN a ELSE b

RECURSIVE BitXor(_, _)
BitXor(a, b) ==
  IF a = 0 THEN b
  ELSE IF b = 0 THEN a
  ELSE (((a % 2) + (b % 2)) % 2) + 2 * BitXor(a \div 2, b \div 2)

XorTable == [a \in 0..255 |-> [b \in 0..255 |-> BitXor(a, b)]]

\* Python's  a ^ b  on bytes
Xor(a, b) == XorTable[a][b]

\* b''.join(parts), with a recursion of logarithmic depth
RECURSIVE JoinRange(_, _, _)
JoinRange(parts, lo, hi) ==
  IF lo > hi THEN << >>
  ELSE IF lo = hi THEN parts[lo]
  ELSE LET mid == (lo + hi) \div 2
       IN  JoinRange(parts, lo, mid) \o JoinRange(parts, mid + 1, hi)

Join(parts) == JoinRange(parts, 1, Len(parts))

(***************************************************************************)
(* encryption_logic: the constant tables                                   *)
(***************************************************************************)
s_box ==
  <<  99, 124, 119, 123, 242, 107, 111, 197,  48,   1, 103,  43, 254, 215, 171, 118,
     202, 130, 201, 125, 250,  89,  71, 240, 173, 212, 162, 175, 156, 164, 114, 192,
     183, 253, 147,  38,  54,  63, 247, 204,  52, 165, 229, 241, 113, 216,  49,  21,
       4, 199,  35, 195,  24, 150,   5, 154,   7,  18, 128, 226, 235,  39, 178, 117,
       9, 131,  44,  26,  27, 110,  90, 160,  82,  59, 214, 179,  41, 227,  47, 132,
      83, 209,   0, 237,  32, 252, 177,  91, 106, 203, 190,  57,  74,  76,  88, 207,
     208, 239, 170, 251,  67,  77,  51, 133,  69, 249,   2, 127,  80,  60, 159, 168,
      81, 163,  64, 143, 146, 157,  56, 245, 188, 182, 218,  33,  16, 255, 243, 210,
     205,  12,  19, 236,  95, 151,  68,  23, 196, 167, 126,  61, 100,  93,  25, 115,
      96, 129,  79, 220,  34,  42, 144, 136,  70, 238, 184,  20, 222,  94,  11, 219,
     224,  50,  58,  10,  73,   6,  36,  92, 194, 211, 172,  98, 145, 149, 228, 121,
     231, 200,  55, 109, 141, 213,  78, 169, 108,  86, 244, 234, 101, 122, 174,   8,
     186, 120,  37,  46,  28, 166, 180, 198, 232, 221, 116,  31,  75, 189, 139, 138,
     112,  62, 181, 102,  72,   3, 246,  14,  97,  53,  87, 185, 134, 193,  29, 158,
     225, 248, 152,  17, 105, 217, 142, 148, 155,  30, 135, 233, 206,  85,  40, 223,
     140, 161, 137,  13, 191, 230,  66, 104,  65, 153,  45,  15, 176,  84, 187,  22 >>

inv_s_box ==
  <<  82,   9, 106, 213,  48,  54, 165,  56, 191,  64, 163, 158, 129, 243, 215, 251,
     124, 227,  57, 130, 155,  47, 255, 135,  52, 142,  67,  68, 196, 222, 233, 203,
      84, 123, 148,  50, 166, 194,  35,  61, 238,  76, 149,  11,  66, 250, 195,  78,
       8,  46, 161, 102,  40, 217,  36, 178, 118,  91, 162,  73, 109, 139, 209,  37,
     114, 248, 246, 100, 134, 104, 152,  22, 212, 164,  92, 204,  93, 101, 182, 146,
     108, 112,  72,  80, 253, 237, 185, 218,  94,  21,  70,  87, 167, 141, 157, 132,
     144, 216, 171,   0, 140, 188, 211,  10, 247, 228,  88,   5, 184, 179,  69,   6,
     208,  44,  30, 143, 202,  63,  15,   2, 193, 175, 189,   3,   1,  19, 138, 107,
      58, 145,  17,  65,  79, 103, 220, 234, 151, 242, 207, 206, 240, 180, 230, 115,
     150, 172, 116,  34, 231, 173,  53, 133, 226, 249,  55, 232,  28, 117, 223, 110,
      71, 241,  26, 113,  29,  41, 197, 137, 111, 183,  98,  14, 170,  24, 190,  27,
     252,  86,  62,  75, 198, 210, 121,  32, 154, 219, 192, 254, 120, 205,  90, 244,
      31, 221, 168,  51, 136,   7, 199,  49, 177,  18,  16,  89,  39, 128, 236,  95,
      96,  81, 127, 169,  25, 181,  74,  13,  45, 229, 122, 159, 147, 201, 156, 239,
     160, 224,  59,  77, 174,  42, 245, 176, 200, 235, 187,  60, 131,  83, 153,  97,
      23,  43,   4, 126, 186, 119, 214,  38, 225, 105,  20,  99,  85,  33,  12, 125 >>

r_con ==
  <<   0,   1,   2,   4,   8,  16,  32,  64, 128,  27,  54, 108, 216, 171,  77 >>

(***************************************************************************)
(* encryption_logic: primitive operations.  A matrix is a sequence of      *)
(* 4-byte words (the columns of the state); s[c][r] is row r of column c.  *)
(***************************************************************************)
\* A sequence given by a function is evaluated once, as a tuple.
Eager(f) == f \o << >>

Word4(F(_)) == << F(1), F(2), F(3), F(4) >>

Matrix4(F(_, _)) ==
  << << F(1, 1), F(1, 2), F(1, 3), F(1, 4) >>,
     << F(2, 1), F(2, 2), F(2, 3), F(2, 4) >>,
     << F(3, 1), F(3, 2), F(3, 3), F(3, 4) >>,
     << F(4, 1), F(4, 2), F(4, 3), F(4, 4) >> >>

bytes2matrix(text) ==
  Eager([w \in 1..(Len(text) \div 4) |-> SubSeq(text, 4 * (w - 1) + 1, 4 * w)])

matrix2bytes(matrix) == Join(matrix)

xor_bytes(a, b) == Eager([k \in 1..Min(Len(a), Len(b)) |-> Xor(a[k], b[k])])

add_round_key(s, k) == Matrix4(LAMBDA c, r : Xor(s[c][r], k[c][r]))

sub_bytes(s) == Matrix4(LAMBDA c, r : s_box[s[c][r] + 1])

inv_sub_bytes(s) == Matrix4(LAMBDA c, r : inv_s_box[s[c][r] + 1])

\* row r (0-based r - 1) is rotated left by r - 1 columns
shift_rows(s) == Matrix4(LAMBDA c, r : s[((c - 1 + r - 1) % 4) + 1][r])

inv_shift_rows(s) == Matrix4(LAMBDA c, r : s[((c - 1 - (r - 1) + 4) % 4) + 1][r])

\* multiplication by x in GF(2^8) modulo x^8 + x^4 + x^3 + x + 1
xtime(a) == IF a >= 128 THEN Xor((2 * a) % 256, 27) ELSE 2 * a

RECURSIVE GMul(_, _)
GMul(a, b) ==
  IF b = 0 THEN 0
  ELSE Xor(IF b % 2 = 1 THEN a ELSE 0, GMul(xtime(a), b \div 2))

GMulTable == [k \in {1, 2, 3, 9, 11, 13, 14} |-> [a \in 0..255 |-> GMul(a, k)]]

MixMatrix ==
  << <<2, 3, 1, 1>>, <<1, 2, 3, 1>>, <<1, 1, 2, 3>>, <<3, 1, 1, 2>> >>

InvMixMatrix ==
  << <<14, 11, 13, 9>>, <<9, 14, 11, 13>>, <<13, 9, 14, 11>>, <<11, 13, 9, 14>> >>

MulColumn(M, col) ==
  Word4(LAMBDA r :
     Xor(Xor(GMulTable[M[r][1]][col[1]], GMulTable[M[r][2]][col[2]]),
         Xor(GMulTable[M[r][3]][col[3]], GMulTable[M[r][4]][col[4]])))

mix_columns(s) == Word4(LAMBDA c : MulColumn(MixMatrix, s[c]))

inv_mix_columns(s) == Word4(LAMBDA c : MulColumn(InvMixMatrix, s[c]))

\* PKCS#7: always 1..16 bytes of padding, a full block when already aligned
pad(plaintext) ==
  LET padding_len == 16 - (Len(plaintext) % 16)
  IN  plaintext \o [k \in 1..padding_len |-> padding_len]

\* the result is [ok |-> TRUE, value |-> message] or [ok |-> FALSE]
unpad(plaintext) ==
  IF Len(plaintext) = 0 THEN [ok |-> FALSE, value |-> << >>]
  ELSE LET padding_len == plaintext[Len(plaintext)]
       IN  IF /\ padding_len >= 1
              /\ padding_len <= 16
              /\ padding_len <= Len(plaintext)
              /\ \A k \in (Len(plaintext) - padding_len + 1)..Len(plaintext) :
                     plaintext[k] = padding_len
           THEN [ok |-> TRUE,
                 value |-> SubSeq(plaintext, 1, Len(plaintext) - padding_len)]
           ELSE [ok |-> FALSE, value |-> << >>]

split_blocks(message) ==
  Eager([j \in 1..(Len(message) \div 16) |-> SubSeq(message, 16 * (j - 1) + 1, 16 * j)])

(***************************************************************************)
(* class AES                                                               *)
(***************************************************************************)
rounds_by_key_size == (16 :> 10) @@ (24 :> 12) @@ (32 :> 14)

\* ExpandKeyBody without the test for a 32-byte key in its second branch
ExpandKeyBodyNoKeySizeTest(st, master_key) ==
  LET key_columns    == st.key_columns
      iteration_size == Len(master_key) \div 4
      last           == key_columns[Len(key_columns)]
      core           == Len(key_columns) % iteration_size = 0
      rotated        == << last[2], last[3], last[4], last[1] >>
      mapped         == Word4(LAMBDA k : s_box[rotated[k] + 1])
      word ==
        IF core
        THEN [mapped EXCEPT ![1] = Xor(mapped[1], r_con[st.i + 1])]
        ELSE IF Len(key_columns) % iteration_size = 4
        THEN Word4(LAMBDA k : s_box[last[k] + 1])
        ELSE last
  IN  [key_columns |->
         Append(key_columns,
                xor_bytes(word, key_columns[Len(key_columns) - iteration_size + 1])),
       i |-> IF core THEN st.i + 1 ELSE st.i]

\* One pass of the while loop of _expand_key: st is [key_columns, i].
ExpandKeyBody(st, master_key) ==
  LET key_columns    == st.key_columns
      iteration_size == Len(master_key) \div 4
      last           == key_columns[Len(key_columns)]
      core           == Len(key_columns) % iteration_size = 0
      rotated        == << last[2], last[3], last[4], last[1] >>
      mapped         == Word4(LAMBDA k : s_box[rotated[k] + 1])
      word ==
        IF core
        THEN [mapped EXCEPT ![1] = Xor(mapped[1], r_con[st.i + 1])]
        ELSE IF Len(master_key) = 32 /\ Len(key_columns) % iteration_size = 4
        THEN Word4(LAMBDA k : s_box[last[k] + 1])
        ELSE last
  IN  [key_columns |->
         Append(key_columns,
                xor_bytes(word, key_columns[Len(key_columns) - iteration_size + 1])),
       i |-> IF core THEN st.i + 1 ELSE st.i]

ExpandKeyInit(master_key) == [key_columns |-> bytes2matrix(master_key), i |-> 1]

ExpandKeyDone(st, n_rounds) == ~(Len(st.key_columns) < (n_rounds + 1) * 4)

\* the return statement of _expand_key
GroupKeyMatrices(key_columns) ==
  Eager([m \in 1..(Len(key_columns) \div 4) |->
           SubSeq(key_columns, 4 * (m - 1) + 1, 4 * m)])

RECURSIVE ExpandKeyLoop(_, _, _)
ExpandKeyLoop(st, master_key, n_rounds) ==
  IF ExpandKeyDone(st, n_rounds) THEN st
  ELSE ExpandKeyLoop(ExpandKeyBody(st, master_key), master_key, n_rounds)

expand_key(master_key, n_rounds) ==
  GroupKeyMatrices(ExpandKeyLoop(ExpandKeyInit(master_key), master_key, n_rounds).key_columns)

\* AES.__init__: the object is its two attributes
AES(master_key) ==
  LET n_rounds == rounds_by_key_size[Len(master_key)]
  IN  [n_rounds |-> n_rounds, key_matrices |-> expand_key(master_key, n_rounds)]

\* self._key_matrices[k], Python's negative index included
KeyMatrixIndex(key_matrices, k) == IF k < 0 THEN Len(key_matrices) + k ELSE k

Op(name, k) == [op |-> name, k |-> k]

\* The calls encrypt_block makes on the state, in program order.
EncryptBlockOps(n_rounds) ==
  << Op("add_round_key", 0) >>
  \o Join([i \in 1..(n_rounds - 1) |->
             << Op("sub_bytes", i), Op("shift_rows", i), Op("mix_columns", i),
                Op("add_round_key", i) >>])
  \o << Op("sub_bytes", -1), Op("shift_rows", -1), Op("add_round_key", -1) >>

\* DecryptBlockOps with its loop running upwards, as the loop of encrypt_block does
DecryptBlockOpsAscending(n_rounds) ==
  << Op("add_round_key", -1), Op("inv_shift_rows", -1), Op("inv_sub_bytes", -1) >>
  \o Join([j \in 1..(n_rounds - 1) |->
             LET i == j
             IN  << Op("add_round_key", i), Op("inv_mix_columns", i),
                    Op("inv_shift_rows", i), Op("inv_sub_bytes", i) >>])
  \o << Op("add_round_key", 0) >>

\* The calls decrypt_block makes on the state, in program order.
DecryptBlockOps(n_rounds) ==
  << Op("add_round_key", -1), Op("inv_shift_rows", -1), Op("inv_sub_bytes", -1) >>
  \o Join([j \in 1..(n_rounds - 1) |->
             LET i == n_rounds - j
             IN  << Op("add_round_key", i), Op("inv_mix_columns", i),
                    Op("inv_shift_rows", i), Op("inv_sub_bytes", i) >>])
  \o << Op("add_round_key", 0) >>

ApplyOp(s, o, key_matrices) ==
  CASE o.op = "add_round_key" ->
         add_round_key(s, key_matrices[KeyMatrixIndex(key_matrices, o.k) + 1])
    [] o.op = "sub_bytes"       -> sub_bytes(s)
    [] o.op = "shift_rows"      -> shift_rows(s)
    [] o.op = "mix_columns"     -> mix_columns(s)
    [] o.op = "inv_sub_bytes"   -> inv_sub_bytes(s)
    [] o.op = "inv_shift_rows"  -> inv_shift_rows(s)
    [] o.op = "inv_mix_columns" -> inv_mix_columns(s)

\* The calls ops[lo..hi] applied to the state s in order.  (The test on left
\* holds of every state matrix; it makes TLC compute left once, before the
\* second half runs.)
RECURSIVE RunOps(_, _, _, _, _)
RunOps(s, ops, key_matrices, lo, hi) ==
  IF lo > hi THEN s
  ELSE IF lo = hi THEN ApplyOp(s, ops[lo], key_matrices)
  ELSE LET mid  == (lo + hi) \div 2
           left == RunOps(s, ops, key_matrices, lo, mid)
       IN  IF Len(left) = 4
           THEN RunOps(left, ops, key_matrices, mid + 1, hi)
           ELSE left

encrypt_block(self, plaintext) ==
  LET ops == EncryptBlockOps(self.n_rounds)
  IN  matrix2bytes(RunOps(bytes2matrix(plaintext), ops, self.key_matrices, 1, Len(ops)))

decrypt_block(self, ciphertext) ==
  LET ops == DecryptBlockOps(self.n_rounds)
  IN  matrix2bytes(RunOps(bytes2matrix(ciphertext), ops, self.key_matrices, 1, Len(ops)))

\* One pass of the for loop of encrypt_cbc: st is [blocks, previous].
EncryptCbcBody(self, st, plaintext_block) ==
  LET block == encrypt_block(self, xor_bytes(plaintext_block, st.previous))
  IN  [blocks |-> Append(st.blocks, block), previous |-> block]

\* DecryptCbcBody chaining on the block it decrypted instead of the one it consumed
DecryptCbcBodyChainsOutput(self, st, ciphertext_block) ==
  [blocks   |-> Append(st.blocks, xor_bytes(st.previous, decrypt_block(self, ciphertext_block))),
   previous |-> xor_bytes(st.previous, decrypt_block(self, ciphertext_block))]

\* One pass of the for loop of decrypt_cbc.
DecryptCbcBody(self, st, ciphertext_block) ==
  [blocks   |-> Append(st.blocks, xor_bytes(st.previous, decrypt_block(self, ciphertext_block))),
   previous |-> ciphertext_block]

RECURSIVE EncryptCbcLoop(_, _, _, _)
EncryptCbcLoop(self, st, todo, j) ==
  IF j > Len(todo) THEN st
  ELSE EncryptCbcLoop(self, EncryptCbcBody(self, st, todo[j]), todo, j + 1)

RECURSIVE DecryptCbcLoop(_, _, _, _)
DecryptCbcLoop(self, st, todo, j) ==
  IF j > Len(todo) THEN st
  ELSE DecryptCbcLoop(self, DecryptCbcBody(self, st, todo[j]), todo, j + 1)

encrypt_cbc(self, plaintext, iv) ==
  Join(EncryptCbcLoop(self, [blocks |-> << >>, previous |-> iv],
                      split_blocks(pad(plaintext)), 1).blocks)

\* the result of unpad: [ok, value]
decrypt_cbc(self, ciphertext, iv) ==
  unpad(Join(DecryptCbcLoop(self, [blocks |-> << >>, previous |-> iv],
                            split_blocks(ciphertext), 1).blocks))

(***************************************************************************)
(* Known-answer vectors of the block cipher (FIPS-197, appendix C)         *)
(***************************************************************************)
KatPlain == [k \in 1..16 |-> 17 * (k - 1)]

KatCipher ==
  (16 :> << 105, 196, 224, 216, 106, 123, 4, 48, 216, 205, 183, 128, 112, 180, 197, 90 >>)
  @@ (24 :> << 221, 169, 124, 164, 134, 76, 223, 224, 110, 175, 112, 160, 236, 13, 113, 145 >>)
  @@ (32 :> << 142, 162, 183, 202, 81, 103, 69, 191, 234, 252, 73, 144, 75, 73, 96, 137 >>)


(***************************************************************************)
(* Python values at the API boundary: bytes, str (a sequence of code       *)
(* points) and None.  len(v) is Len(v.data).                               *)
(***************************************************************************)
Bytes(data) == [type |-> "bytes", data |-> data]

Str(data) == [type |-> "str", data |-> data]

None == [type |-> "None", data |-> << >>]

IsSurrogate(cp) == cp >= 55296 /\ cp <= 57343

\* str.encode('utf-8') raises UnicodeEncodeError on a lone surrogate
Encodable(text) == \A k \in 1..Len(text) : ~IsSurrogate(text[k])

EncodeChar(cp) ==
  IF cp < 128 THEN << cp >>
  ELSE IF cp < 2048 THEN << 192 + (cp \div 64), 128 + (cp % 64) >>
  ELSE IF cp < 65536
  THEN << 224 + (cp \div 4096), 128 + ((cp \div 64) % 64), 128 + (cp % 64) >>
  ELSE << 240 + (cp \div 262144), 128 + ((cp \div 4096) % 64),
          128 + ((cp \div 64) % 64), 128 + (cp % 64) >>

\* text.encode('utf-8') of an encodable text
utf8_encode(text) == Join([k \in 1..Len(text) |-> EncodeChar(text[k])])

\* b[k] is a byte in lo..hi
InRange(b, k, lo, hi) == k <= Len(b) /\ b[k] >= lo /\ b[k] <= hi

\* bytes.decode('utf-8') from index i on: [ok |-> TRUE, chars |-> code points],
\* or [ok |-> FALSE] where the strict decoder raises UnicodeDecodeError
RECURSIVE utf8_decode(_, _)
utf8_decode(b, i) ==
  IF i > Len(b) THEN [ok |-> TRUE, chars |-> << >>]
  ELSE
    LET c == b[i]
        n == IF c < 128 THEN 1
             ELSE IF c >= 194 /\ c <= 223 THEN 2
             ELSE IF c >= 224 /\ c <= 239 THEN 3
             ELSE IF c >= 240 /\ c <= 244 THEN 4
             ELSE 0
        lo2 == IF c = 224 THEN 160 ELSE IF c = 240 THEN 144 ELSE 128
        hi2 == IF c = 237 THEN 159 ELSE IF c = 244 THEN 143 ELSE 191
        wellFormed ==
          /\ n >= 1
          /\ n >= 2 => InRange(b, i + 1, lo2, hi2)
          /\ n >= 3 => InRange(b, i + 2, 128, 191)
          /\ n >= 4 => InRange(b, i + 3, 128, 191)
        cp == IF n = 1 THEN c
              ELSE IF n = 2 THEN (c - 192) * 64 + (b[i + 1] - 128)
              ELSE IF n = 3
              THEN (c - 224) * 4096 + (b[i + 1] - 128) * 64 + (b[i + 2] - 128)
              ELSE (c - 240) * 262144 + (b[i + 1] - 128) * 4096
                   + (b[i + 2] - 128) * 64 + (b[i + 3] - 128)
    IN  IF ~wellFormed THEN [ok |-> FALSE, chars |-> << >>]
        ELSE LET rest == utf8_decode(b, i + n)
             IN  IF rest.ok THEN [ok |-> TRUE, chars |-> << cp >> \o rest.chars]
                 ELSE rest

(***************************************************************************)
(* Library functions.  pbkdf2_hmac and hmac.new(...).digest() are          *)
(* deterministic functions of all their arguments with a fixed output      *)
(* length; the model keeps exactly that.                                   *)
(***************************************************************************)
RECURSIVE WeightedSum(_, _, _)
WeightedSum(s, lo, hi) ==
  IF lo > hi THEN 0
  ELSE IF lo = hi THEN ((s[lo] + 1) * (lo * lo + lo + 41)) % 65521
  ELSE LET mid == (lo + hi) \div 2
       IN  (WeightedSum(s, lo, mid) + WeightedSum(s, mid + 1, hi)) % 65521

Digest(s) == (WeightedSum(s, 1, Len(s)) + 257 * Len(s)) % 65521

Squeeze(seed, n) ==
  Eager([j \in 1..n |->
           IF j = 1 THEN seed % 256
           ELSE IF j = 2 THEN seed \div 256
           ELSE ((seed + 131 * j) * (2 * j + 1) + (seed \div 256)) % 256])

pbkdf2_hmac(password, salt, iterations, dklen) ==
  Squeeze((7 * Digest(password) + 13 * Digest(salt) + 101 * iterations + 17) % 65521,
          dklen)

new_hmac_digest(key, msg) ==
  Squeeze((11 * Digest(key) + 3 * Digest(msg) + 5) % 65521, 32)

compare_digest(a, b) == a = b

(***************************************************************************)
(* Module constants and get_key_iv                                         *)
(***************************************************************************)
AES_KEY_SIZE == 16

HMAC_KEY_SIZE == 16

IV_SIZE == 16

SALT_SIZE == 16

HMAC_SIZE == 32

get_key_iv(password, salt, workload) ==
  LET stretched == pbkdf2_hmac(password, salt, workload,
                               AES_KEY_SIZE + IV_SIZE + HMAC_KEY_SIZE)
      rest1     == SubSeq(stretched, AES_KEY_SIZE + 1, Len(stretched))
      rest2     == SubSeq(rest1, HMAC_KEY_SIZE + 1, Len(rest1))
  IN  [aes_key  |-> SubSeq(stretched, 1, AES_KEY_SIZE),
       hmac_key |-> SubSeq(rest1, 1, HMAC_KEY_SIZE),
       iv       |-> SubSeq(rest2, 1, IV_SIZE)]

(***************************************************************************)
(* Exceptions                                                              *)
(***************************************************************************)
EncryptDecryptWithoutKey == "EncryptDecryptWithoutKey"

EncryptDecryptEmptyMessage == "EncryptDecryptEmptyMessage"

InvalidKeyLength == "InvalidKeyLength"

UnsupportedMessageType == "UnsupportedMessageType"

UnicodeEncodeError == "UnicodeEncodeError"

UnicodeDecodeError == "UnicodeDecodeError"

AssertFullBlocks == "AssertionError: Ciphertext must be made of full 16-byte blocks."

AssertMinLength == "AssertionError: Ciphertext must be at least 32 bytes long"

AssertNotTampered == "AssertionError: Ciphertext corrupted or tampered."

PaddingError == "PaddingError"

NoError == "None"

\* validate_encryption_inputs: the exception raised, or NoError
validate_encryption_inputs(key, plaintext) ==
  IF key.type = "None" \/ Len(key.data) = 0 THEN EncryptDecryptWithoutKey
  ELSE IF Len(plaintext.data) = 0 THEN EncryptDecryptEmptyMessage
  ELSE IF Len(key.data) \notin {16, 24, 32} THEN InvalidKeyLength
  ELSE LET decoded == utf8_decode(plaintext.data, 1)
       IN  IF ~decoded.ok THEN UnicodeDecodeError
           ELSE IF \E k \in 1..Len(decoded.chars) : decoded.chars[k] > 127
           THEN UnsupportedMessageType
           ELSE NoError

\* validate_decryption_inputs: the exception raised, or NoError
validate_decryption_inputs(key, ciphertext) ==
  IF key.type = "None" \/ Len(key.data) = 0 THEN EncryptDecryptWithoutKey
  ELSE IF Len(ciphertext.data) = 0 THEN EncryptDecryptEmptyMessage
  ELSE IF Len(key.data) \notin {16, 24, 32} THEN InvalidKeyLength
  ELSE NoError

\* isinstance(v, str) and v.encode('utf-8'), otherwise v itself
Coerce(v) == IF v.type = "str" THEN Bytes(utf8_encode(v.data)) ELSE v

\* EncryptReturn with the salt placed before the tag
EncryptReturnSaltFirst(hmac, salt, ciphertext) == salt \o hmac \o ciphertext

\* the return statement of encrypt
EncryptReturn(hmac, salt, ciphertext) == hmac \o salt \o ciphertext

\* Python's s[:n] and s[n:]
Take(s, n) == SubSeq(s, 1, Min(n, Len(s)))

Drop(s, n) == SubSeq(s, Min(n, Len(s)) + 1, Len(s))

(***************************************************************************)
(* Inputs                                                                  *)
(***************************************************************************)
MaxPlainLen == 33

MaxWorkload == 2

NumSalts == 2

\* the first n characters of "0123456789abcdefghij..."
KeyData(n) == Eager([k \in 1..n |-> IF k <= 10 THEN 47 + k ELSE 86 + k])

\* n printable ASCII characters
AsciiData(n) == Eager([k \in 1..n |-> 32 + ((7 * k) % 95)])

HelloWorld == << 104, 101, 108, 108, 111, 32, 119, 111, 114, 108, 100 >>

\* bytes keys of every length of interest, text keys whose UTF-8 encoding is
\* as long as the text (ASCII) and longer than the text (U+00F1 is 2 bytes)
Keys ==
  { None, Bytes(<< >>), Str(<< >>) }
  \cup { Bytes(KeyData(n)) : n \in {8, 15, 16, 17, 24, 32, 33} }
  \cup { Str(KeyData(16)),
         Str(<< 241 >> \o KeyData(14)),
         Str(<< 241 >> \o KeyData(15)),
         Str(<< 241, 241, 241, 241, 241, 241, 241, 241 >>) }

Plaintexts ==
  { Bytes(AsciiData(n)) : n \in 0..MaxPlainLen }
  \cup { None, Str(<< >>), Bytes(HelloWorld), Str(HelloWorld),
         Str(<< 104, 233, 108, 108, 111 >>),
         Bytes(<< 104, 195, 169, 108, 108, 111 >>),
         Bytes(<< 104, 233, 108, 108, 111 >>),
         Bytes(<< 255 >>) }

Workloads == 1..MaxWorkload

\* the values os.urandom(SALT_SIZE) may return
Salts == { Eager([k \in 1..SALT_SIZE |-> (53 * n + 29 * k) % 256]) : n \in 1..NumSalts }

\* a valid key other than the one used to encrypt
WrongKey == Bytes(Eager([k \in 1..16 |-> 103 - k]))

FlipByte(b, p) == [b EXCEPT ![p] = Xor(b[p], 1)]

\* one bit flipped in the tag, the salt, the first or the last ciphertext byte
BitFlips(b) ==
  { FlipByte(b, p) : p \in {1, HMAC_SIZE + 1, HMAC_SIZE + SALT_SIZE + 1, Len(b)} }

Truncations(b) == { Take(b, n) : n \in {16, 32, 48, Len(b) - 1} }

\* the blob with its last ciphertext byte changed and the tag recomputed by
\* someone who holds the key
Retagged(b, key, workload) ==
  LET salt       == SubSeq(b, HMAC_SIZE + 1, HMAC_SIZE + SALT_SIZE)
      ciphertext == FlipByte(Drop(b, HMAC_SIZE + SALT_SIZE),
                             Len(b) - HMAC_SIZE - SALT_SIZE)
      keys       == get_key_iv(Coerce(key).data, salt, workload)
  IN  new_hmac_digest(keys.hmac_key, salt \o ciphertext) \o salt \o ciphertext

\* blobs that no call of encrypt produced
StandaloneBlobs ==
  { Bytes(AsciiData(n)) : n \in {0, 16, 20, 32, 40, 48, 64} }

(***************************************************************************)
(* State                                                                   *)
(***************************************************************************)
VARIABLES
  pc,            \* position in encrypt / decrypt
  arg_key,       \* the key the caller holds
  arg_workload,  \* the workload the caller uses
  enc,           \* the frame of encrypt: arguments and locals
  dec,           \* the frame of decrypt: arguments and locals
  enc_out,       \* what encrypt returned or raised
  dec_out,       \* what decrypt returned or raised
  trace,         \* the cryptographic calls the current call has made
  aes_pc,        \* position in the methods of class AES
  master_key,    \* argument of AES.__init__
  key_st,        \* locals of _expand_key: key_columns and i
  self,          \* the AES object: n_rounds and _key_matrices
  blk,           \* frame of encrypt_block / decrypt_block
  cbc            \* frame of encrypt_cbc / decrypt_cbc

apiVars == << pc, arg_key, arg_workload, enc, dec, enc_out, dec_out, trace >>

aesVars == << aes_pc, master_key, key_st, self, blk, cbc >>

vars == << pc, arg_key, arg_workload, enc, dec, enc_out, dec_out, trace,
           aes_pc, master_key, key_st, self, blk, cbc >>

NoOut == [status |-> "none", value |-> << >>, error |-> NoError]

Returned(v) == [status |-> "returned", value |-> v, error |-> NoError]

Raised(e) == [status |-> "raised", value |-> << >>, error |-> e]

EncFrame(key, plaintext, workload) ==
  [arg_key |-> key, arg_plaintext |-> plaintext, workload |-> workload,
   key |-> key, plaintext |-> plaintext,
   salt |-> << >>, hmac_key |-> << >>, iv |-> << >>, ciphertext |-> << >>]

DecFrame(key, ciphertext, workload) ==
  [arg_key |-> key, arg_ciphertext |-> ciphertext, workload |-> workload,
   key |-> key, ciphertext |-> ciphertext,
   hmac |-> << >>, salt |-> << >>, hmac_key |-> << >>, iv |-> << >>,
   expected_hmac |-> << >>]

NoKeySt == [key_columns |-> << >>, i |-> 0]

NoSelf == [n_rounds |-> 0, key_matrices |-> << >>]

NoBlk == [input |-> << >>, state |-> << >>, pos |-> 0, log |-> << >>,
          enc_log |-> << >>, cipher |-> << >>, output |-> << >>]

NoCbc == [plaintext |-> << >>, iv |-> << >>, todo |-> << >>, j |-> 0,
          st |-> [blocks |-> << >>, previous |-> << >>],
          ciphertext |-> << >>, result |-> [ok |-> FALSE, value |-> << >>]]

AesIdle ==
  /\ aes_pc = "off"
  /\ master_key = << >>
  /\ key_st = NoKeySt
  /\ self = NoSelf
  /\ blk = NoBlk
  /\ cbc = NoCbc

ApiIdle ==
  /\ pc = "off"
  /\ arg_key = None
  /\ arg_workload = 0
  /\ enc = EncFrame(None, None, 0)
  /\ dec = DecFrame(None, None, 0)
  /\ enc_out = NoOut
  /\ dec_out = NoOut
  /\ trace = << >>

(***************************************************************************)
(* encrypt(key, plaintext, workload)                                       *)
(***************************************************************************)
Init ==
  /\ pc = "idle"
  /\ arg_key \in Keys
  /\ arg_workload \in Workloads
  /\ enc = EncFrame(None, None, 0)
  /\ dec = DecFrame(None, None, 0)
  /\ enc_out = NoOut
  /\ dec_out = NoOut
  /\ trace = << >>
  /\ AesIdle

EncryptRaise(e) ==
  /\ enc_out' = Raised(e)
  /\ pc' = "enc_done"
  /\ UNCHANGED << arg_key, arg_workload, enc, dec, dec_out, trace >>

EncryptCall ==
  /\ pc = "idle"
  /\ \E plaintext \in Plaintexts :
        enc' = EncFrame(arg_key, plaintext, arg_workload)
  /\ pc' = "enc_coerce"
  /\ UNCHANGED << arg_key, arg_workload, dec, enc_out, dec_out, trace >>
  /\ UNCHANGED aesVars

\* lines 221-224
EncCoerce ==
  /\ pc = "enc_coerce"
  /\ IF \/ enc.key.type = "str" /\ ~Encodable(enc.key.data)
        \/ enc.plaintext.type = "str" /\ ~Encodable(enc.plaintext.data)
     THEN EncryptRaise(UnicodeEncodeError)
     ELSE /\ enc' = [enc EXCEPT !.key = Coerce(enc.key),
                                !.plaintext = Coerce(enc.plaintext)]
          /\ pc' = "enc_validate"
          /\ UNCHANGED << arg_key, arg_workload, dec, enc_out, dec_out, trace >>
  /\ UNCHANGED aesVars

\* line 226
EncValidate ==
  /\ pc = "enc_validate"
  /\ LET e == validate_encryption_inputs(enc.key, enc.plaintext)
     IN  IF e # NoError
         THEN EncryptRaise(e)
         ELSE /\ pc' = "enc_salt"
              /\ UNCHANGED << arg_key, arg_workload, enc, dec, enc_out, dec_out, trace >>
  /\ UNCHANGED aesVars

\* line 228
EncSalt ==
  /\ pc = "enc_salt"
  /\ \E salt \in Salts : enc' = [enc EXCEPT !.salt = salt]
  /\ trace' = Append(trace, "os.urandom")
  /\ pc' = "enc_get_key_iv"
  /\ UNCHANGED << arg_key, arg_workload, dec, enc_out, dec_out >>
  /\ UNCHANGED aesVars

\* line 229
EncGetKeyIv ==
  /\ pc = "enc_get_key_iv"
  /\ LET keys == get_key_iv(enc.key.data, enc.salt, enc.workload)
     IN  enc' = [enc EXCEPT !.key = Bytes(keys.aes_key),
                            !.hmac_key = keys.hmac_key,
                            !.iv = keys.iv]
  /\ trace' = Append(trace, "get_key_iv")
  /\ pc' = "enc_cbc"
  /\ UNCHANGED << arg_key, arg_workload, dec, enc_out, dec_out >>
  /\ UNCHANGED aesVars

\* line 230
EncCbc ==
  /\ pc = "enc_cbc"
  /\ enc' = [enc EXCEPT !.ciphertext =
                          encrypt_cbc(AES(enc.key.data), enc.plaintext.data, enc.iv)]
  /\ trace' = Append(trace, "encrypt_cbc")
  /\ pc' = "enc_hmac"
  /\ UNCHANGED << arg_key, arg_workload, dec, enc_out, dec_out >>
  /\ UNCHANGED aesVars

\* lines 231-234
EncHmacReturn ==
  /\ pc = "enc_hmac"
  /\ LET hmac == new_hmac_digest(enc.hmac_key, enc.salt \o enc.ciphertext)
     IN  enc_out' = Returned(Bytes(EncryptReturn(hmac, enc.salt, enc.ciphertext)))
  /\ trace' = Append(trace, "new_hmac")
  /\ pc' = "enc_done"
  /\ UNCHANGED << arg_key, arg_workload, enc, dec, dec_out >>
  /\ UNCHANGED aesVars

(***************************************************************************)
(* decrypt(key, ciphertext, workload)                                      *)
(***************************************************************************)
DecryptRaise(e) ==
  /\ dec_out' = Raised(e)
  /\ pc' = "dec_done"
  /\ UNCHANGED << arg_key, arg_workload, enc, dec, enc_out, trace >>

DecryptEnter(key, ciphertext, workload) ==
  /\ dec' = DecFrame(key, ciphertext, workload)
  /\ trace' = << >>
  /\ pc' = "dec_validate"
  /\ UNCHANGED << arg_key, arg_workload, enc, enc_out, dec_out >>
  /\ UNCHANGED aesVars

EncryptReturned == pc = "enc_done" /\ enc_out.status = "returned"

\* the caller decrypts what encrypt returned, with the same key and workload
DecryptOwnBlob ==
  /\ EncryptReturned
  /\ DecryptEnter(arg_key, enc_out.value, arg_workload)

\* the blob was damaged on the way
DecryptTampered ==
  /\ EncryptReturned
  /\ \E b \in BitFlips(enc_out.value.data) \cup Truncations(enc_out.value.data) :
        DecryptEnter(arg_key, Bytes(b), arg_workload)

\* the blob was changed and tagged again by a holder of the key
DecryptRetagged ==
  /\ EncryptReturned
  /\ DecryptEnter(arg_key, Bytes(Retagged(enc_out.value.data, arg_key, arg_workload)),
                  arg_workload)

DecryptWrongKey ==
  /\ EncryptReturned
  /\ DecryptEnter(WrongKey, enc_out.value, arg_workload)

DecryptWrongWorkload ==
  /\ EncryptReturned
  /\ \E w \in Workloads \ {arg_workload} : DecryptEnter(arg_key, enc_out.value, w)

\* the caller decrypts a blob that encrypt did not produce
DecryptStandalone ==
  /\ pc = "idle"
  /\ \E b \in StandaloneBlobs : DecryptEnter(arg_key, b, arg_workload)

\* line 253
DecValidate ==
  /\ pc = "dec_validate"
  /\ LET e == validate_decryption_inputs(dec.key, dec.ciphertext)
     IN  IF e # NoError
         THEN DecryptRaise(e)
         ELSE /\ pc' = "dec_assert"
              /\ UNCHANGED << arg_key, arg_workload, enc, dec, enc_out, dec_out, trace >>
  /\ UNCHANGED aesVars

\* lines 256-261
DecAssertStructure ==
  /\ pc = "dec_assert"
  /\ IF Len(dec.ciphertext.data) % 16 # 0 THEN DecryptRaise(AssertFullBlocks)
     ELSE IF ~(Len(dec.ciphertext.data) >= 32) THEN DecryptRaise(AssertMinLength)
     ELSE /\ pc' = "dec_coerce"
          /\ UNCHANGED << arg_key, arg_workload, enc, dec, enc_out, dec_out, trace >>
  /\ UNCHANGED aesVars

\* lines 263-264
DecCoerce ==
  /\ pc = "dec_coerce"
  /\ IF dec.key.type = "str" /\ ~Encodable(dec.key.data)
     THEN DecryptRaise(UnicodeEncodeError)
     ELSE /\ dec' = [dec EXCEPT !.key = Coerce(dec.key)]
          /\ pc' = "dec_split"
          /\ UNCHANGED << arg_key, arg_workload, enc, enc_out, dec_out, trace >>
  /\ UNCHANGED aesVars

\* lines 266-267
DecSplit ==
  /\ pc = "dec_split"
  /\ LET rest == Drop(dec.ciphertext.data, HMAC_SIZE)
     IN  dec' = [dec EXCEPT !.hmac = Take(dec.ciphertext.data, HMAC_SIZE),
                            !.salt = Take(rest, SALT_SIZE),
                            !.ciphertext = Bytes(Drop(rest, SALT_SIZE))]
  /\ pc' = "dec_get_key_iv"
  /\ UNCHANGED << arg_key, arg_workload, enc, enc_out, dec_out, trace >>
  /\ UNCHANGED aesVars

\* line 268
DecGetKeyIv ==
  /\ pc = "dec_get_key_iv"
  /\ LET keys == get_key_iv(dec.key.data, dec.salt, dec.workload)
     IN  dec' = [dec EXCEPT !.key = Bytes(keys.aes_key),
                            !.hmac_key = keys.hmac_key,
                            !.iv = keys.iv]
  /\ trace' = Append(trace, "get_key_iv")
  /\ pc' = "dec_verify"
  /\ UNCHANGED << arg_key, arg_workload, enc, enc_out, dec_out >>
  /\ UNCHANGED aesVars

\* lines 270-271, with the assert statement left out
DecVerifyUnchecked ==
  /\ pc = "dec_verify"
  /\ dec' = [dec EXCEPT !.expected_hmac =
                          new_hmac_digest(dec.hmac_key, dec.salt \o dec.ciphertext.data)]
  /\ trace' = Append(trace, "new_hmac")
  /\ pc' = "dec_cbc"
  /\ UNCHANGED << arg_key, arg_workload, enc, enc_out, dec_out >>
  /\ UNCHANGED aesVars

\* lines 270-271
DecVerify ==
  /\ pc = "dec_verify"
  /\ LET expected_hmac == new_hmac_digest(dec.hmac_key, dec.salt \o dec.ciphertext.data)
     IN  /\ dec' = [dec EXCEPT !.expected_hmac = expected_hmac]
         /\ trace' = Append(trace, "new_hmac")
         /\ IF ~compare_digest(dec.hmac, expected_hmac)
            THEN /\ dec_out' = Raised(AssertNotTampered)
                 /\ pc' = "dec_done"
            ELSE /\ pc' = "dec_cbc"
                 /\ UNCHANGED dec_out
  /\ UNCHANGED << arg_key, arg_workload, enc, enc_out >>
  /\ UNCHANGED aesVars

\* line 273
DecCbc ==
  /\ pc = "dec_cbc"
  /\ LET r == decrypt_cbc(AES(dec.key.data), dec.ciphertext.data, dec.iv)
     IN  dec_out' = IF r.ok THEN Returned(Bytes(r.value)) ELSE Raised(PaddingError)
  /\ trace' = Append(trace, "decrypt_cbc")
  /\ pc' = "dec_done"
  /\ UNCHANGED << arg_key, arg_workload, enc, dec, enc_out >>
  /\ UNCHANGED aesVars

Next ==
  \/ EncryptCall
  \/ EncCoerce
  \/ EncValidate
  \/ EncSalt
  \/ EncGetKeyIv
  \/ EncCbc
  \/ EncHmacReturn
  \/ DecryptOwnBlob
  \/ DecryptTampered
  \/ DecryptRetagged
  \/ DecryptWrongKey
  \/ DecryptWrongWorkload
  \/ DecryptStandalone
  \/ DecValidate
  \/ DecAssertStructure
  \/ DecCoerce
  \/ DecSplit
  \/ DecGetKeyIv
  \/ DecVerify
  \/ DecCbc

Spec == Init /\ [][Next]_vars

(***************************************************************************)
(* The methods of class AES, one step per loop pass or primitive call      *)
(***************************************************************************)
MaxCbcLen == 33

NumIvs == 2

NumBlocks == 2

KatKey(n) == Eager([k \in 1..n |-> k - 1])

MasterKeys == { KatKey(n) : n \in {16, 24, 32} } \cup { KeyData(n) : n \in {16, 24, 32} }

Blocks ==
  { KatPlain } \cup { Eager([k \in 1..16 |-> (37 * n + 11 * k) % 256]) : n \in 1..NumBlocks }

Ivs == { Eager([k \in 1..16 |-> (91 * n + 5 * k) % 256]) : n \in 1..NumIvs }

CbcPlaintexts == { AsciiData(n) : n \in 0..MaxCbcLen }

\* AES.__init__ up to the first test of the while loop of _expand_key
AesInit ==
  /\ ApiIdle
  /\ aes_pc = "expand_key"
  /\ master_key \in MasterKeys
  /\ key_st = ExpandKeyInit(master_key)
  /\ self = [n_rounds |-> rounds_by_key_size[Len(master_key)], key_matrices |-> << >>]
  /\ blk = NoBlk
  /\ cbc = NoCbc

\* lines 74-94
ExpandKeyStep ==
  /\ aes_pc = "expand_key"
  /\ ~ExpandKeyDone(key_st, self.n_rounds)
  /\ key_st' = ExpandKeyBody(key_st, master_key)
  /\ UNCHANGED << aes_pc, master_key, self, blk, cbc >>
  /\ UNCHANGED apiVars

\* line 97 and line 62
ExpandKeyReturn ==
  /\ aes_pc = "expand_key"
  /\ ExpandKeyDone(key_st, self.n_rounds)
  /\ self' = [self EXCEPT !.key_matrices = GroupKeyMatrices(key_st.key_columns)]
  /\ aes_pc' = "ready"
  /\ UNCHANGED << master_key, key_st, blk, cbc >>
  /\ UNCHANGED apiVars

\* what a call on the state leaves in the log: its name, and for add_round_key
\* the index of the matrix it used
LogEntry(o, key_matrices) ==
  IF o.op = "add_round_key"
  THEN << o.op, KeyMatrixIndex(key_matrices, o.k) >>
  ELSE << o.op >>

\* lines 103-107
EncryptBlockCall ==
  /\ aes_pc = "ready"
  /\ \E plaintext \in Blocks :
        blk' = [NoBlk EXCEPT !.input = plaintext,
                             !.state = bytes2matrix(plaintext),
                             !.pos = 1]
  /\ aes_pc' = "encrypt_block"
  /\ UNCHANGED << master_key, key_st, self, cbc >>
  /\ UNCHANGED apiVars

\* one call of lines 107-117
EncryptBlockStep ==
  /\ aes_pc = "encrypt_block"
  /\ LET ops == EncryptBlockOps(self.n_rounds)
     IN  /\ blk.pos <= Len(ops)
         /\ blk' = [blk EXCEPT
                      !.state = ApplyOp(blk.state, ops[blk.pos], self.key_matrices),
                      !.log = Append(blk.log, LogEntry(ops[blk.pos], self.key_matrices)),
                      !.pos = blk.pos + 1]
  /\ UNCHANGED << aes_pc, master_key, key_st, self, cbc >>
  /\ UNCHANGED apiVars

\* line 119
EncryptBlockReturn ==
  /\ aes_pc = "encrypt_block"
  /\ blk.pos > Len(EncryptBlockOps(self.n_rounds))
  /\ blk' = [blk EXCEPT !.cipher = matrix2bytes(blk.state)]
  /\ aes_pc' = "block_encrypted"
  /\ UNCHANGED << master_key, key_st, self, cbc >>
  /\ UNCHANGED apiVars

\* lines 125-127, on the block just encrypted
DecryptBlockCall ==
  /\ aes_pc = "block_encrypted"
  /\ blk' = [blk EXCEPT !.state = bytes2matrix(blk.cipher),
                        !.pos = 1,
                        !.enc_log = blk.log,
                        !.log = << >>]
  /\ aes_pc' = "decrypt_block"
  /\ UNCHANGED << master_key, key_st, self, cbc >>
  /\ UNCHANGED apiVars

\* one call of lines 129-139
DecryptBlockStep ==
  /\ aes_pc = "decrypt_block"
  /\ LET ops == DecryptBlockOps(self.n_rounds)
     IN  /\ blk.pos <= Len(ops)
         /\ blk' = [blk EXCEPT
                      !.state = ApplyOp(blk.state, ops[blk.pos], self.key_matrices),
                      !.log = Append(blk.log, LogEntry(ops[blk.pos], self.key_matrices)),
                      !.pos = blk.pos + 1]
  /\ UNCHANGED << aes_pc, master_key, key_st, self, cbc >>
  /\ UNCHANGED apiVars

\* line 141
DecryptBlockReturn ==
  /\ aes_pc = "decrypt_block"
  /\ blk.pos > Len(DecryptBlockOps(self.n_rounds))
  /\ blk' = [blk EXCEPT !.output = matrix2bytes(blk.state)]
  /\ aes_pc' = "block_decrypted"
  /\ UNCHANGED << master_key, key_st, self, cbc >>
  /\ UNCHANGED apiVars

\* lines 148-153
EncryptCbcCall ==
  /\ aes_pc = "ready"
  /\ \E plaintext \in CbcPlaintexts, iv \in Ivs :
        cbc' = [NoCbc EXCEPT !.plaintext = plaintext,
                             !.iv = iv,
                             !.todo = split_blocks(pad(plaintext)),
                             !.j = 1,
                             !.st = [blocks |-> << >>, previous |-> iv]]
  /\ aes_pc' = "encrypt_cbc"
  /\ UNCHANGED << master_key, key_st, self, blk >>
  /\ UNCHANGED apiVars

\* lines 154-158
EncryptCbcStep ==
  /\ aes_pc = "encrypt_cbc"
  /\ cbc.j <= Len(cbc.todo)
  /\ cbc' = [cbc EXCEPT !.st = EncryptCbcBody(self, cbc.st, cbc.todo[cbc.j]),
                        !.j = cbc.j + 1]
  /\ UNCHANGED << aes_pc, master_key, key_st, self, blk >>
  /\ UNCHANGED apiVars

\* line 160
EncryptCbcReturn ==
  /\ aes_pc = "encrypt_cbc"
  /\ cbc.j > Len(cbc.todo)
  /\ cbc' = [cbc EXCEPT !.ciphertext = Join(cbc.st.blocks)]
  /\ aes_pc' = "cbc_encrypted"
  /\ UNCHANGED << master_key, key_st, self, blk >>
  /\ UNCHANGED apiVars

\* lines 167-170, on the ciphertext just produced, with the same iv
DecryptCbcCall ==
  /\ aes_pc = "cbc_encrypted"
  /\ cbc' = [cbc EXCEPT !.todo = split_blocks(cbc.ciphertext),
                        !.j = 1,
                        !.st = [blocks |-> << >>, previous |-> cbc.iv]]
  /\ aes_pc' = "decrypt_cbc"
  /\ UNCHANGED << master_key, key_st, self, blk >>
  /\ UNCHANGED apiVars

\* lines 171-174
DecryptCbcStep ==
  /\ aes_pc = "decrypt_cbc"
  /\ cbc.j <= Len(cbc.todo)
  /\ cbc' = [cbc EXCEPT !.st = DecryptCbcBody(self, cbc.st, cbc.todo[cbc.j]),
                        !.j = cbc.j + 1]
  /\ UNCHANGED << aes_pc, master_key, key_st, self, blk >>
  /\ UNCHANGED apiVars

\* line 176
DecryptCbcReturn ==
  /\ aes_pc = "decrypt_cbc"
  /\ cbc.j > Len(cbc.todo)
  /\ cbc' = [cbc EXCEPT !.result = unpad(Join(cbc.st.blocks))]
  /\ aes_pc' = "cbc_decrypted"
  /\ UNCHANGED << master_key, key_st, self, blk >>
  /\ UNCHANGED apiVars

NextAES ==
  \/ ExpandKeyStep
  \/ ExpandKeyReturn
  \/ EncryptBlockCall
  \/ EncryptBlockStep
  \/ EncryptBlockReturn
  \/ DecryptBlockCall
  \/ DecryptBlockStep
  \/ DecryptBlockReturn
  \/ EncryptCbcCall
  \/ EncryptCbcStep
  \/ EncryptCbcReturn
  \/ DecryptCbcCall
  \/ DecryptCbcStep
  \/ DecryptCbcReturn

SpecAES == AesInit /\ [][NextAES]_vars

\* the published single-block vectors, for the three key sizes
KnownAnswer ==
  (/\ aes_pc \in {"block_encrypted", "block_decrypted"}
   /\ master_key = KatKey(Len(master_key))
   /\ blk.input = KatPlain)
  => blk.cipher = KatCipher[Len(master_key)]

(***************************************************************************)
(* Properties                                                              *)
(***************************************************************************)
InTrace(call) == \E k \in 1..Len(trace) : trace[k] = call

DecryptRunning ==
  pc \in {"dec_validate", "dec_assert", "dec_coerce", "dec_split",
          "dec_get_key_iv", "dec_verify", "dec_cbc", "dec_done"}

\* decrypt was given what encrypt returned, with the same key and workload
SameCall ==
  /\ enc_out.status = "returned"
  /\ dec.arg_key = enc.arg_key
  /\ dec.arg_ciphertext = enc_out.value
  /\ dec.workload = enc.workload

\* C1: whenever encrypt returned a blob for (k, p, w) and decrypt has finished
\* on (k, that blob, w), decrypt returned exactly the bytes of p.
RoundTrip ==
  (pc = "dec_done" /\ SameCall) => dec_out = Returned(Coerce(enc.arg_plaintext))

\* encrypt returned a blob under a text key and decrypt refused that key
RoundTripBroken ==
  /\ pc = "dec_done"
  /\ SameCall
  /\ enc.arg_key.type = "str"
  /\ dec_out = Raised(InvalidKeyLength)

\* the tag decrypt has to find in front of the blob it was given
RecomputedTag ==
  LET blob == dec.arg_ciphertext.data
      salt == Take(Drop(blob, HMAC_SIZE), SALT_SIZE)
      keys == get_key_iv(Coerce(dec.arg_key).data, salt, dec.workload)
  IN  new_hmac_digest(keys.hmac_key, Drop(blob, HMAC_SIZE))

\* decrypt got past its input validation and its two structure assertions
StructurallyValid ==
  /\ validate_decryption_inputs(dec.arg_key, dec.arg_ciphertext) = NoError
  /\ dec.arg_key.type = "str" => Encodable(dec.arg_key.data)
  /\ Len(dec.arg_ciphertext.data) % 16 = 0
  /\ Len(dec.arg_ciphertext.data) >= 32

\* C2: for a structurally valid blob whose first 32 bytes differ from the tag
\* recomputed over salt || ciphertext with the derived authentication key,
\* decrypt never reaches decrypt_cbc and ends with the tag assertion failing.
TagVerifiedFirst ==
  (/\ DecryptRunning
   /\ StructurallyValid
   /\ Take(dec.arg_ciphertext.data, HMAC_SIZE) # RecomputedTag)
  => /\ pc # "dec_cbc"
     /\ ~InTrace("decrypt_cbc")
     /\ pc = "dec_done" => dec_out = Raised(AssertNotTampered)

\* a blob with one bit flipped was rejected by the tag check
TamperRejected ==
  /\ pc = "dec_done"
  /\ enc_out.status = "returned"
  /\ dec.arg_key = enc.arg_key
  /\ dec.arg_ciphertext.data \in BitFlips(enc_out.value.data)
  /\ dec_out = Raised(AssertNotTampered)
  /\ trace = << "get_key_iv", "new_hmac" >>

\* C3: in encrypt and in decrypt, whatever the message or blob, a key of
\* length 0 raises EmptyKey and a key of length 8, 15, 17 or 33 raises
\* InvalidKeyLength.
KeyValidation ==
  /\ pc = "enc_done" =>
       /\ Len(enc.arg_key.data) = 0 => enc_out = Raised(EncryptDecryptWithoutKey)
       /\ Len(enc.arg_key.data) \in {8, 15, 17, 33} => enc_out = Raised(InvalidKeyLength)
  /\ pc = "dec_done" =>
       /\ Len(dec.arg_key.data) = 0 => dec_out = Raised(EncryptDecryptWithoutKey)
       /\ Len(dec.arg_key.data) \in {8, 15, 17, 33} => dec_out = Raised(InvalidKeyLength)

\* decrypt of an empty blob under an 8-byte key answered EmptyMessage
KeyLengthMasked ==
  /\ pc = "dec_done"
  /\ dec.arg_key = Bytes(KeyData(8))
  /\ Len(dec.arg_ciphertext.data) = 0
  /\ dec_out = Raised(EncryptDecryptEmptyMessage)

HasNonAscii(data) == \E k \in 1..Len(data) : data[k] > 127

\* C4: with a key that encrypt accepts, a non-empty plaintext (text or bytes)
\* holding a value above 127 makes encrypt raise UnsupportedMessageType,
\* before any salt is drawn or key derived.
NonAsciiRejected ==
  (/\ pc = "enc_done"
   /\ Len(Coerce(enc.arg_key).data) \in {16, 24, 32}
   /\ HasNonAscii(enc.arg_plaintext.data))
  => /\ enc_out = Raised(UnsupportedMessageType)
     /\ trace = << >>

\* encrypt of b"\xff" ended in the decoder's own error
UndecodableBytes ==
  /\ pc = "enc_done"
  /\ enc.arg_key = Bytes(KeyData(16))
  /\ enc.arg_plaintext = Bytes(<< 255 >>)
  /\ enc_out = Raised(UnicodeDecodeError)

\* C5: a blob returned by encrypt for a plaintext of n >= 1 bytes is
\* tag (32) || salt (16) || ciphertext, the ciphertext 16 * (n div 16 + 1) bytes
\* long, the whole a multiple of 16 and at least 64 bytes (64 for n = 11).
WireFormat ==
  enc_out.status = "returned" =>
    LET blob == enc_out.value.data
        n    == Len(Coerce(enc.arg_plaintext).data)
    IN  /\ enc_out.value.type = "bytes"
        /\ n >= 1
        /\ Len(blob) = 48 + 16 * ((n \div 16) + 1)
        /\ Len(blob) % 16 = 0
        /\ Len(blob) >= 64
        /\ n = 11 => Len(blob) = 64
        /\ SubSeq(blob, 1, 32) = new_hmac_digest(enc.hmac_key, enc.salt \o enc.ciphertext)
        /\ SubSeq(blob, 33, 48) = enc.salt
        /\ enc.salt \in Salts
        /\ SubSeq(blob, 49, Len(blob)) = enc.ciphertext
        /\ Len(enc.ciphertext) = 16 * ((n \div 16) + 1)

\* encrypt returned the 64-byte blob of b"hello world" under b"0123456789abcdef"
ScenarioBlob ==
  /\ pc = "enc_done"
  /\ enc.arg_key = Bytes(KeyData(16))
  /\ enc.arg_plaintext = Bytes(HelloWorld)
  /\ enc.workload = 1
  /\ enc_out.status = "returned"
  /\ Len(enc_out.value.data) = 64

\* C6: with a valid key, a non-empty blob shorter than the 48-byte header or
\* not a multiple of 16 is rejected by the structure assertions before any
\* key is derived; what reaches the split is a 32-byte tag, a 16-byte salt and
\* at least one full ciphertext block.
BlobStructure ==
  /\ pc \in {"dec_coerce", "dec_split", "dec_get_key_iv", "dec_verify", "dec_cbc"} =>
       /\ Len(dec.arg_ciphertext.data) >= 48
       /\ Len(dec.arg_ciphertext.data) % 16 = 0
  /\ pc \in {"dec_get_key_iv", "dec_verify", "dec_cbc"} =>
       /\ Len(dec.hmac) = 32
       /\ Len(dec.salt) = 16
       /\ Len(dec.ciphertext.data) >= 16
       /\ Len(dec.ciphertext.data) % 16 = 0
  /\ (/\ pc = "dec_done"
      /\ validate_decryption_inputs(dec.arg_key, dec.arg_ciphertext) = NoError
      /\ \/ Len(dec.arg_ciphertext.data) < 48
         \/ Len(dec.arg_ciphertext.data) % 16 # 0)
     => /\ dec_out.error \in {AssertFullBlocks, AssertMinLength}
        /\ trace = << >>

\* a blob of 32 bytes, tag only, got as far as the tag computation
HeaderlessBlobAccepted ==
  /\ pc = "dec_verify"
  /\ Len(dec.arg_ciphertext.data) = 32
  /\ dec.salt = << >>
  /\ dec.ciphertext.data = << >>
  /\ trace = << "get_key_iv" >>

\* the chaining value of block j
ChainValue(iv, blocks, j) == IF j = 1 THEN iv ELSE blocks[j - 1]

\* C7: encrypt_cbc emits C_j = encrypt_block(P_j XOR C_(j-1)), C_0 = iv, over the
\* padded plaintext; decrypt_cbc recovers P_j = decrypt_block(C_j) XOR C_(j-1)
\* chaining on the ciphertext block it consumed; the round trip gives p back,
\* and a block-aligned p gives a ciphertext 16 bytes longer than p.
CbcChaining ==
  LET P == split_blocks(pad(cbc.plaintext))
      C == split_blocks(cbc.ciphertext)
  IN  /\ aes_pc = "encrypt_cbc" =>
           cbc.st.previous = ChainValue(cbc.iv, cbc.st.blocks, cbc.j)
      /\ aes_pc = "decrypt_cbc" =>
           cbc.st.previous = ChainValue(cbc.iv, cbc.todo, cbc.j)
      /\ aes_pc \in {"cbc_encrypted", "decrypt_cbc", "cbc_decrypted"} =>
           /\ Len(C) = Len(P)
           /\ Len(cbc.ciphertext) = 16 * ((Len(cbc.plaintext) \div 16) + 1)
           /\ Len(cbc.plaintext) % 16 = 0 =>
                Len(cbc.ciphertext) = Len(cbc.plaintext) + 16
      /\ aes_pc = "cbc_encrypted" =>
           \A j \in 1..Len(P) :
              C[j] = encrypt_block(self, xor_bytes(P[j], ChainValue(cbc.iv, C, j)))
      /\ aes_pc = "cbc_decrypted" =>
           /\ \A j \in 1..Len(C) :
                 /\ cbc.st.blocks[j] =
                      xor_bytes(decrypt_block(self, C[j]), ChainValue(cbc.iv, C, j))
                 /\ cbc.st.blocks[j] = P[j]
           /\ cbc.result = [ok |-> TRUE, value |-> cbc.plaintext]

\* a block-aligned plaintext of two blocks went through both directions
CbcAlignedRoundTrip ==
  /\ aes_pc = "cbc_decrypted"
  /\ Len(cbc.plaintext) = 32
  /\ Len(cbc.ciphertext) = 48
  /\ cbc.result = [ok |-> TRUE, value |-> cbc.plaintext]

\* the calls the design states for encryption with n rounds
ExpectedEncryptLog(n) ==
  << << "add_round_key", 0 >> >>
  \o Join([i \in 1..(n - 1) |->
             << << "sub_bytes" >>, << "shift_rows" >>, << "mix_columns" >>,
                << "add_round_key", i >> >>])
  \o << << "sub_bytes" >>, << "shift_rows" >>, << "add_round_key", n >> >>

InverseCall(e) ==
  CASE e[1] = "add_round_key" -> e
    [] e[1] = "sub_bytes"     -> << "inv_sub_bytes" >>
    [] e[1] = "shift_rows"    -> << "inv_shift_rows" >>
    [] e[1] = "mix_columns"   -> << "inv_mix_columns" >>

\* a log read backwards, every call replaced by its inverse
Mirror(log) == [k \in 1..Len(log) |-> InverseCall(log[Len(log) + 1 - k])]

\* the matrix indices of the add_round_key calls of a log, in order
RoundKeyIndices(log) ==
  LET ark == SelectSeq(log, LAMBDA e : e[1] = "add_round_key")
  IN  [k \in 1..Len(ark) |-> ark[k][2]]

\* C8: for 10, 12 or 14 rounds encrypt_block uses the matrices 0, 1, ..., rounds
\* in ascending order, with mix_columns in rounds 1..rounds-1 only; decrypt_block
\* makes the inverse calls in the mirrored order rounds, ..., 0; and
\* decrypt_block(encrypt_block(b)) = b.
RoundOrder ==
  /\ aes_pc # "off" => self.n_rounds \in {10, 12, 14}
  /\ aes_pc \in {"block_encrypted", "decrypt_block", "block_decrypted"} =>
       LET log == IF aes_pc = "block_encrypted" THEN blk.log ELSE blk.enc_log
       IN  /\ log = ExpectedEncryptLog(self.n_rounds)
           /\ RoundKeyIndices(log) = [k \in 1..(self.n_rounds + 1) |-> k - 1]
  /\ aes_pc = "block_decrypted" =>
       /\ blk.log = Mirror(blk.enc_log)
       /\ RoundKeyIndices(blk.log) =
            [k \in 1..(self.n_rounds + 1) |-> self.n_rounds + 1 - k]
       /\ blk.output = blk.input

\* a block went through the 14 rounds of a 32-byte key and back
BlockRoundTrip ==
  /\ aes_pc = "block_decrypted"
  /\ self.n_rounds = 14
  /\ Len(blk.log) = 56
  /\ blk.cipher # blk.input
  /\ blk.output = blk.input

RotWord(w) == << w[2], w[3], w[4], w[1] >>

SubWord(w) == << s_box[w[1] + 1], s_box[w[2] + 1], s_box[w[3] + 1], s_box[w[4] + 1] >>

\* T of the design, for the word at 0-based position i of a schedule of
\* wordCount-word keys
ScheduleT(w, i, wordCount) ==
  IF i % wordCount = 0
  THEN LET t == SubWord(RotWord(w))
       IN  << Xor(t[1], r_con[(i \div wordCount) + 1]), t[2], t[3], t[4] >>
  ELSE IF wordCount = 8 /\ i % wordCount = 4 THEN SubWord(w)
  ELSE w

\* C9: for keys of 16, 24 and 32 bytes _expand_key ends with exactly
\* 4 * (rounds + 1) words in rounds + 1 matrices of 4 words; every appended word
\* at position i is T(word[i-1]) XOR word[i-wordCount]; the round-constant index
\* starts at 1 and grows by one per position that is a multiple of wordCount.
KeySchedule ==
  aes_pc # "off" =>
    LET wordCount == Len(master_key) \div 4
        words     == key_st.key_columns
        rounds    == self.n_rounds
    IN  /\ wordCount \in {4, 6, 8}
        /\ rounds = wordCount + 6
        /\ Len(words) >= wordCount
        /\ Len(words) <= 4 * (rounds + 1)
        /\ \A k \in 1..wordCount : words[k] = SubSeq(master_key, 4 * k - 3, 4 * k)
        /\ \A k \in (wordCount + 1)..Len(words) :
              words[k] = xor_bytes(ScheduleT(words[k - 1], k - 1, wordCount),
                                   words[k - wordCount])
        /\ key_st.i = 1 + ((Len(words) - 1) \div wordCount)
        /\ aes_pc # "expand_key" =>
              /\ Len(words) = 4 * (rounds + 1)
              /\ Len(self.key_matrices) = rounds + 1
              /\ \A m \in 1..(rounds + 1) :
                    /\ Len(self.key_matrices[m]) = 4
                    /\ \A c \in 1..4 : self.key_matrices[m][c] = words[4 * (m - 1) + c]

\* the schedule of a 32-byte key is complete: 60 words, 7 round constants used
Schedule256Complete ==
  /\ aes_pc = "ready"
  /\ Len(master_key) = 32
  /\ Len(key_st.key_columns) = 60
  /\ Len(self.key_matrices) = 15
  /\ key_st.i = 8

\* the key checks of encrypt pass for key k
EncryptAcceptsKey(k) ==
  /\ ~(k.type = "str" /\ ~Encodable(k.data))
  /\ validate_encryption_inputs(Coerce(k), Bytes(HelloWorld)) = NoError

\* C10: decrypt's key validation accepts a key (bytes or text) exactly when
\* encrypt's does, so decrypt never answers InvalidKeyLength or EmptyKey for a
\* key under which encrypt produced a blob.
KeyAgreement ==
  (pc = "dec_done" /\ Len(dec.arg_ciphertext.data) > 0) =>
    /\ (dec_out.error \notin {InvalidKeyLength, EncryptDecryptWithoutKey})
       <=> EncryptAcceptsKey(dec.arg_key)
    /\ (enc_out.status = "returned" /\ dec.arg_key = enc.arg_key)
       => dec_out.error \notin {InvalidKeyLength, EncryptDecryptWithoutKey}

\* decrypt refused, for its length, a key that encrypt accepts
KeyValidatorsDisagree ==
  /\ pc = "dec_done"
  /\ Len(dec.arg_ciphertext.data) > 0
  /\ EncryptAcceptsKey(dec.arg_key)
  /\ dec_out = Raised(InvalidKeyLength)
=============================================================================
